---- MODULE Spec2Model ----
\* Model of the HTML-to-Markdown conversion worker (cf-convert-html-markdown):
\* the fetch handler of src/index.ts and of its two sibling variants
\* (worker-md-final.ts, worker-md-accept-presence-logs.ts), the R2 bucket
\* they share, the origin and the Workers AI converter.
\*
\* Strings are sequences of one-character strings, so that the string
\* operations of the code (endsWith, replace, slice, trim, toLowerCase,
\* the Accept regular expression) are computed and not assumed.
EXTENDS Integers, Sequences, FiniteSets, TLC

----------------------------------------------------------------------------
\* Bounds of the model

\* number of requests handled in one behaviour
MaxRequests == 2

----------------------------------------------------------------------------
\* String literals of the code

TEXT_MARKDOWN == <<"t", "e", "x", "t", "/", "m", "a", "r", "k", "d", "o", "w", "n">>
TEXT_PLAIN == <<"t", "e", "x", "t", "/", "p", "l", "a", "i", "n">>
CT_MARKDOWN == <<"t", "e", "x", "t", "/", "m", "a", "r", "k", "d", "o", "w", "n", ";", " ", "c", "h", "a", "r", "s", "e", "t", "=", "u", "t", "f", "-", "8">>
CT_PLAIN == <<"t", "e", "x", "t", "/", "p", "l", "a", "i", "n", ";", " ", "c", "h", "a", "r", "s", "e", "t", "=", "u", "t", "f", "-", "8">>
\* Content-Type the runtime gives a Response built from a string when the
\* code sets none
CT_DEFAULT == <<"t", "e", "x", "t", "/", "p", "l", "a", "i", "n", ";", "c", "h", "a", "r", "s", "e", "t", "=", "U", "T", "F", "-", "8">>
CT_HTML == <<"t", "e", "x", "t", "/", "h", "t", "m", "l">>
SOURCE_HTML == <<".", "s", "o", "u", "r", "c", "e", ".", "h", "t", "m", "l">>
AI_FAILED_TXT == <<".", "a", "i", "-", "f", "a", "i", "l", "e", "d", ".", "t", "x", "t">>
INDEX == <<"i", "n", "d", "e", "x">>
DOT_MD == <<".", "m", "d">>

UPPER == <<"A", "B", "C", "D", "E", "F", "G", "H", "I", "J", "K", "L", "M", "N", "O", "P", "Q", "R", "S", "T", "U", "V", "W", "X", "Y", "Z">>
LOWER == <<"a", "b", "c", "d", "e", "f", "g", "h", "i", "j", "k", "l", "m", "n", "o", "p", "q", "r", "s", "t", "u", "v", "w", "x", "y", "z">>
DIGITS == <<"0", "1", "2", "3", "4", "5", "6", "7", "8", "9">>

Range(s) == {s[i] : i \in DOMAIN s}

\* \w of the regular expression: [A-Za-z0-9_]
WordChars == Range(UPPER) \cup Range(LOWER) \cup Range(DIGITS) \cup {"_"}

\* white space removed by String.prototype.trim
WhiteSpace == {" ", "\t", "\n", "\r"}

----------------------------------------------------------------------------
\* String operations

toLowerChar(c) ==
    IF c \in Range(UPPER)
    THEN LOWER[CHOOSE k \in DOMAIN UPPER : UPPER[k] = c]
    ELSE c

toLowerCase(s) == [i \in DOMAIN s |-> toLowerChar(s[i])]

startsWith(s, p) ==
    /\ Len(s) >= Len(p)
    /\ SubSeq(s, 1, Len(p)) = p

endsWith(s, p) ==
    /\ Len(s) >= Len(p)
    /\ SubSeq(s, Len(s) - Len(p) + 1, Len(s)) = p

\* s.slice(0, -n)
sliceEnd(s, n) == IF Len(s) > n THEN SubSeq(s, 1, Len(s) - n) ELSE <<>>

\* s.replace(/^\//, '')
stripLeadingSlash(s) == IF Len(s) > 0 /\ s[1] = "/" THEN Tail(s) ELSE s

\* no trailing separator removed
stripTrailingSlash_keeps(s) == s

\* s.replace(/\/$/, '')
stripTrailingSlash(s) ==
    IF Len(s) > 0 /\ s[Len(s)] = "/" THEN SubSeq(s, 1, Len(s) - 1) ELSE s

RECURSIVE trimStart(_)
trimStart(s) ==
    IF Len(s) > 0 /\ s[1] \in WhiteSpace THEN trimStart(Tail(s)) ELSE s

RECURSIVE trimEnd(_)
trimEnd(s) ==
    IF Len(s) > 0 /\ s[Len(s)] \in WhiteSpace
    THEN trimEnd(SubSeq(s, 1, Len(s) - 1))
    ELSE s

\* String.prototype.trim
trim(s) == trimEnd(trimStart(s))

\* the test without trim()
looksLikeHtml_noTrim(markdown) == startsWith(markdown, <<"<">>)

\* the test with includes in place of startsWith
looksLikeHtml_includes(markdown) == \E i \in DOMAIN markdown : markdown[i] = "<"

\* the test of index.ts:151, markdown.trim().startsWith('<')
looksLikeHtml(markdown) == startsWith(trim(markdown), <<"<">>)

----------------------------------------------------------------------------
\* Trigger classifier

\* An occurrence, at position i of header s, of \blit\b under the flag i.
\* lit begins and ends with a word character, so each \b holds exactly when
\* the neighbouring character is missing or is not a word character.
matchesTokenAt(s, i, lit) ==
    /\ i + Len(lit) - 1 <= Len(s)
    /\ toLowerCase(SubSeq(s, i, i + Len(lit) - 1)) = lit
    /\ (i = 1 \/ s[i - 1] \notin WordChars)
    /\ (i + Len(lit) - 1 = Len(s) \/ s[i + Len(lit)] \notin WordChars)

\* /(?:\btext\/markdown\b|\btext\/plain\b)/i.test(acceptHeader);
\* an absent header is null, and null and '' are both falsy
prefersMarkdownByPresence(acceptHeader) ==
    /\ acceptHeader.present
    /\ acceptHeader.value # <<>>
    /\ \E i \in DOMAIN acceptHeader.value :
          \/ matchesTokenAt(acceptHeader.value, i, TEXT_MARKDOWN)
          \/ matchesTokenAt(acceptHeader.value, i, TEXT_PLAIN)

----------------------------------------------------------------------------
\* URL handling

HexDigits == Range(DIGITS) \cup {"A", "B", "C", "D", "E", "F", "a", "b", "c", "d", "e", "f"}

\* the escapes the model's paths use, with the character each one decodes to
PercentDecoded(h1, h2) ==
    CASE h1 = "2" /\ h2 = "F" -> "/"
      [] h1 = "2" /\ h2 = "E" -> "."
      [] h1 = "3" /\ h2 = "F" -> "?"
      [] h1 = "2" /\ h2 = "5" -> "%"
      [] OTHER -> "?"

\* decodeURIComponent: a '%' not followed by two hexadecimal digits raises
\* URIError (ok = FALSE)
RECURSIVE decodeURIComponent(_)
decodeURIComponent(s) ==
    IF s = <<>> THEN [ok |-> TRUE, value |-> <<>>]
    ELSE IF s[1] # "%"
    THEN LET rest == decodeURIComponent(Tail(s))
         IN  [ok |-> rest.ok, value |-> <<s[1]>> \o rest.value]
    ELSE IF Len(s) < 3 \/ s[2] \notin HexDigits \/ s[3] \notin HexDigits
    THEN [ok |-> FALSE, value |-> <<>>]
    ELSE LET rest == decodeURIComponent(SubSeq(s, 4, Len(s)))
         IN  [ok |-> rest.ok, value |-> <<PercentDecoded(s[2], s[3])>> \o rest.value]

\* the percent-encoding the URL pathname setter applies to one character
pathEncodeChar(c) ==
    CASE c = "?" -> <<"%", "3", "F">>
      [] c = "#" -> <<"%", "2", "3">>
      [] c = " " -> <<"%", "2", "0">>
      [] OTHER -> <<c>>

RECURSIVE pathEncode(_)
pathEncode(s) ==
    IF s = <<>> THEN <<>> ELSE pathEncodeChar(s[1]) \o pathEncode(Tail(s))

\* sourceUrl.pathname = value: the path of an http(s) URL always begins
\* with '/', and '?', '#' and ' ' are percent-encoded
setPathname(value) ==
    IF Len(value) > 0 /\ value[1] = "/"
    THEN pathEncode(value)
    ELSE <<"/">> \o pathEncode(value)

\* key of index.ts:63-72, from the decoded pathname
cacheKey(pathname) ==
    IF endsWith(pathname, DOT_MD)
    THEN stripLeadingSlash(pathname)
    ELSE LET stripped == stripTrailingSlash(stripLeadingSlash(pathname))
             base == IF stripped = <<>> THEN INDEX ELSE stripped
         IN  base \o DOT_MD

\* pathname of sourceUrl, index.ts:64-73; rawPath is url.pathname
sourcePathname(rawPath, pathname) ==
    IF endsWith(pathname, DOT_MD)
    THEN setPathname(sliceEnd(pathname, 3))
    ELSE rawPath

\* the snapshot at the primary key itself
htmlKey_same(key) == key

\* index.ts:126: the key of the snapshot
htmlKey(key) == key \o SOURCE_HTML

\* the quarantine key without its suffix
debugKey_primary(key) == key

debugKey(key) == key \o AI_FAILED_TXT

----------------------------------------------------------------------------
\* Time: milliseconds since the epoch as days and milliseconds within the
\* day, because MAX_AGE_MS = 7776000000 exceeds the 32-bit integers of the
\* checker

MS_PER_DAY == 24 * 60 * 60 * 1000

MAX_AGE_DAYS == 90

\* a retention of 30 days
MAX_AGE_MS_30 == [d |-> 30, ms |-> 0]

\* 90 * 24 * 60 * 60 * 1000
MAX_AGE_MS == [d |-> MAX_AGE_DAYS, ms |-> 0]

\* a - b, for b not later than a
TimeMinus(a, b) ==
    IF a.ms >= b.ms
    THEN [d |-> a.d - b.d, ms |-> a.ms - b.ms]
    ELSE [d |-> a.d - b.d - 1, ms |-> a.ms + MS_PER_DAY - b.ms]

TimeLess(a, b) == a.d < b.d \/ (a.d = b.d /\ a.ms < b.ms)

\* the age test with <= in place of <
ageOk_inclusive(nowT, uploaded) ==
    ~TimeLess(MAX_AGE_MS, TimeMinus(nowT, uploaded))

\* Date.now() - uploaded < MAX_AGE_MS
ageOk(nowT, uploaded) == TimeLess(TimeMinus(nowT, uploaded), MAX_AGE_MS)

\* contentType.toLowerCase().startsWith('text/markdown'); a missing content
\* type is '' (index.ts:87) or null (worker-md-final.ts)
isMarkdownCT(contentType) ==
    /\ contentType.present
    /\ startsWith(toLowerCase(contentType.value), TEXT_MARKDOWN)

----------------------------------------------------------------------------
\* Inputs of the model

\* the three workers of the repository: src/index.ts, worker-md-final.ts and
\* worker-md-accept-presence-logs.ts
Variants == {"index", "final", "logs"}

\* url.pathname of the requests
Paths ==
    { <<"/", "a">>,
      <<"/", "a", ".", "m", "d">>,
      <<"/", "%">> }

NoHeader == [present |-> FALSE, value |-> <<>>]

Header(v) == [present |-> TRUE, value |-> v]

\* Accept headers of the requests
Accepts ==
    { NoHeader,
      Header(CT_HTML),
      Header(TEXT_MARKDOWN),
      Header(<<"T", "E", "X", "T", "/", "P", "L", "A", "I", "N", ",", "*", "/", "*">>),
      Header(TEXT_PLAIN \o <<"-", "e", "x", "t", "e", "n", "d", "e", "d">>) }

\* texts the converter returns
MD_A == <<"#", " ", "A">>
MD_B == <<" ", "b", "<">>
HTML_WS == <<" ", "\n", "<", "p">>

Texts == {MD_A, MD_B, HTML_WS}

\* what env.AI.toMarkdown does: it throws, or it returns a value, of which
\* the code looks at Array.isArray(results), at results[0] ("missing",
\* "null" or "object") and at typeof results[0].data
Results(throws, isArray, first, dataIsString, data) ==
    [throws |-> throws, isArray |-> isArray, first |-> first,
     dataIsString |-> dataIsString, data |-> data]

NoResults == Results(FALSE, FALSE, "missing", FALSE, <<>>)

\* a throw, an object that is no array (with an entry 0 that has text), an
\* empty array, an array whose first entry is null, an array whose first
\* entry has data that is no string, and the arrays whose first entry has text
ConverterOutcomes ==
    { Results(TRUE, FALSE, "missing", FALSE, <<>>),
      Results(FALSE, FALSE, "object", TRUE, MD_A),
      Results(FALSE, TRUE, "missing", FALSE, <<>>),
      Results(FALSE, TRUE, "null", FALSE, <<>>),
      Results(FALSE, TRUE, "object", FALSE, <<>>) }
    \cup { Results(FALSE, TRUE, "object", TRUE, t) : t \in Texts }

\* the test without Array.isArray
invalidResult_noArrayCheck(results) ==
    \/ results.first # "object"
    \/ ~results.dataIsString

\* index.ts:144
invalidResult(results) ==
    \/ ~results.isArray
    \/ results.first # "object"
    \/ ~results.dataIsString

\* the body of the origin's page
ORIGIN_HTML == <<"<", "h", "1", ">">>

\* status codes of the origin, after redirects
OriginStatuses == {200, 304, 404}

\* the status text the origin sends with each status
statusText(status) ==
    CASE status = 200 -> "OK"
      [] status = 304 -> "Not Modified"
      [] status = 404 -> "Not Found"
      [] OTHER -> ""

\* a test that lets the 3xx statuses through
ok_lenient(status) == status >= 200 /\ status <= 399

\* Response.ok
ok(status) == status >= 200 /\ status <= 299

\* what the origin fetch can do: fail (no response), or answer
OriginOutcomes ==
    { [failed |-> TRUE, status |-> 0, statusText |-> ""] }
    \cup { [failed |-> FALSE, status |-> st, statusText |-> statusText(st)] :
              st \in OriginStatuses }

EPOCH == [d |-> 0, ms |-> 0]

\* the instants at which Date.now() is read: deployment, one millisecond
\* short of 90 days after it, 90 days after it, and one millisecond later
Instants ==
    { EPOCH,
      [d |-> MAX_AGE_DAYS - 1, ms |-> MS_PER_DAY - 1],
      [d |-> MAX_AGE_DAYS, ms |-> 0],
      [d |-> MAX_AGE_DAYS, ms |-> 1] }

Object(payload, contentType, uploaded) ==
    [payload |-> payload, contentType |-> contentType, uploaded |-> uploaded]

EmptyStore == [k \in {} |-> Object(<<>>, NoHeader, EPOCH)]

\* the key of /a.md and /a
KEY_A == <<"a", ".", "m", "d">>

\* what the bucket holds when the worker is deployed: nothing, or an object
\* at a primary key uploaded by someone else, with a content type that is
\* markdown in another letter case, not markdown, or missing
InitialStores ==
    { EmptyStore }
    \cup { [k \in {KEY_A} |-> Object(MD_B, ct, EPOCH)] :
             ct \in { Header(<<"T", "e", "x", "t", "/", "M", "a", "r", "k", "d", "o", "w", "n">>),
                      Header(CT_PLAIN),
                      NoHeader } }

----------------------------------------------------------------------------
\* State

VARIABLES
    variant,    \* which worker is deployed
    bucket,     \* TRUE when env.MARKDOWN_BUCKET is bound
    store,      \* the R2 bucket: key -> object
    now,        \* Date.now()
    started,    \* requests received so far
    req         \* the request in each slot: position in fetch and its locals

vars == <<variant, bucket, store, now, started, req>>

Slots == {1, 2}

NoBody == [kind |-> "none", text |-> <<>>, status |-> 0, statusText |-> "", reqId |-> FALSE]

NoResponse ==
    [status |-> 0, body |-> NoBody, contentType |-> <<>>, xcache |-> "", xnote |-> "",
     xtriggered |-> ""]

Idle ==
    [ pc |-> "idle",
      path |-> <<>>,
      pathname |-> <<>>,
      debugMode |-> FALSE,
      forceRefresh |-> FALSE,
      saveHtml |-> FALSE,
      acceptPrefers |-> FALSE,
      key |-> <<>>,
      target |-> <<>>,
      markdown |-> <<>>,
      ops |-> <<>>,
      resp |-> NoResponse ]

\* one call of a capability: its name, the key or the path it was given,
\* whether it returned, and what it returned (a status for fetch, the
\* results for toMarkdown)
Op(name, arg, succeeded, status, results) ==
    [op |-> name, arg |-> arg, ok |-> succeeded, status |-> status, results |-> results]

Init ==
    /\ variant \in Variants
    /\ bucket \in BOOLEAN
    /\ store \in (IF bucket THEN InitialStores ELSE {EmptyStore})
    /\ now = EPOCH
    /\ started = 0
    /\ req = [r \in Slots |-> Idle]

----------------------------------------------------------------------------
\* Responses

Response(status, body, contentType, xcache, xnote) ==
    [status |-> status, body |-> body, contentType |-> contentType,
     xcache |-> xcache, xnote |-> xnote, xtriggered |-> ""]

TextBody(text) == [NoBody EXCEPT !.kind = "text", !.text = text]

\* `Upstream fetch failed: ${upstream.status} ${upstream.statusText}`
UpstreamFailedBody(status, text) ==
    [NoBody EXCEPT !.kind = "upstream-failed", !.status = status, !.statusText = text]

\* 'AI conversion failed'
AiFailedBody == [NoBody EXCEPT !.kind = "ai-failed"]

\* the body of the proxied origin response
ProxiedBody(status) == [NoBody EXCEPT !.kind = "proxied", !.status = status]

\* the catch block: index.ts:184-190 and worker-md-final.ts:240-255 put the
\* request id in the body, worker-md-accept-presence-logs.ts:186-189 answers
\* String(err) alone
InternalError(v) ==
    IF v = "logs"
    THEN Response(500, [NoBody EXCEPT !.kind = "internal-error"], CT_DEFAULT, "", "")
    ELSE Response(500, [NoBody EXCEPT !.kind = "internal-error", !.reqId = TRUE],
                  CT_PLAIN, "", "")

\* cache hit: index.ts:92-98 sets no Content-Type on the headers it
\* answers with, the two other workers set text/markdown
HitResponse(v, cachedText) ==
    Response(200, TextBody(cachedText),
             IF v = "index" THEN CT_DEFAULT ELSE CT_MARKDOWN, "r2", "")

\* index.ts:113-119
UpstreamFailed(status, text) ==
    Response(502, UpstreamFailedBody(status, text), CT_DEFAULT, "", "")

\* index.ts:144-147
AiInvalidResult == Response(500, AiFailedBody, CT_DEFAULT, "", "")

\* index.ts:159-165; worker-md-accept-presence-logs.ts sets no X-Note and
\* worker-md-final.ts always the same one
SuspectResponse(v, markdown, hasBucket, saved) ==
    Response(200, TextBody(markdown), CT_PLAIN, "",
             CASE v = "logs" -> ""
               [] v = "final" -> "ai-output-looks-like-html"
               [] OTHER ->
                    IF ~hasBucket THEN ""
                    ELSE IF saved THEN "ai-output-looks-like-html-saved"
                    ELSE "ai-output-looks-like-html-save-failed")

\* index.ts:180-183
MarkdownResponse(markdown, hasBucket) ==
    Response(200, TextBody(markdown), CT_MARKDOWN,
             IF hasBucket THEN "miss,r2-updated" ELSE "miss,no-r2", "")

----------------------------------------------------------------------------
\* The bucket

\* a put that appends to the object that is already there
Put_appends(key, payload, contentType) ==
    [k \in DOMAIN store \cup {key} |->
        IF k # key THEN store[k]
        ELSE IF k \in DOMAIN store
        THEN Object(store[k].payload \o payload, contentType, now)
        ELSE Object(payload, contentType, now)]

\* a put that leaves an object that is already there
Put_ifAbsent(key, payload, contentType) ==
    [k \in DOMAIN store \cup {key} |->
        IF k \in DOMAIN store THEN store[k] ELSE Object(payload, contentType, now)]

\* R2 put: creates or replaces the object, uploaded is the time of the put
Put(key, payload, contentType) ==
    [k \in DOMAIN store \cup {key} |->
        IF k = key THEN Object(payload, contentType, now) ELSE store[k]]

\* the cache test of index.ts:85-90 on the result of get(key)
IsHit(key) ==
    /\ key \in DOMAIN store
    /\ ageOk(now, store[key].uploaded)
    /\ isMarkdownCT(store[key].contentType)

----------------------------------------------------------------------------
\* The fetch handler, one action for each stretch between two awaits

Logged(r, name, arg, succeeded) ==
    Append(req[r].ops, Op(name, arg, succeeded, 0, NoResults))

LoggedFetch(r, target, origin) ==
    Append(req[r].ops, Op("fetch", target, ~origin.failed, origin.status, NoResults))

LoggedConvert(r, target, results) ==
    Append(req[r].ops, Op("toMarkdown", target, ~results.throws, 0, results))

\* index.ts:76-79: the responses of the conversion path, the one of the
\* catch block excepted, are built on responseDebugHeaders
responseDebugHeaders(r, response) ==
    IF variant = "index" /\ response.body.kind # "internal-error"
    THEN [response EXCEPT !.xtriggered = IF req[r].acceptPrefers THEN "accept" ELSE "path-md"]
    ELSE response

\* the handler returns the response
Respond(r, ops, response) ==
    req' = [req EXCEPT ![r].pc = "done", ![r].ops = ops,
                       ![r].resp = responseDebugHeaders(r, response)]

Goto(r, ops, pc) ==
    req' = [req EXCEPT ![r].pc = pc, ![r].ops = ops]

\* the cache test without !forceRefresh
readsCache_ignoresRefresh(hasBucket, forceRefresh) == hasBucket

\* index.ts:83: env.MARKDOWN_BUCKET && !forceRefresh
readsCache(hasBucket, forceRefresh) == hasBucket /\ ~forceRefresh

\* index.ts:28-47 and 63-79: a request arrives; its path is decoded, the
\* trigger is decided and the key and the source target are derived.
\* decodeURIComponent is outside the try block: its URIError leaves the
\* handler.  worker-md-final.ts:55 looks at the path alone.  debugMode is
\* kept for the pass-through only: past it, it is read again only to add
\* headers that the responses of the model do not carry (index.ts:94-97).
Start(r, path, accept, query) ==
    /\ req[r].pc = "idle"
    /\ started < MaxRequests
    /\ started' = started + 1
    /\ LET decoded == decodeURIComponent(path)
           pathname == decoded.value
           acceptPrefers ==
               IF variant = "final" THEN FALSE ELSE prefersMarkdownByPresence(accept)
           isMdPath == endsWith(pathname, DOT_MD)
           forceRefresh == query.refresh
           base == [Idle EXCEPT !.path = path]
       IN  IF ~decoded.ok
           THEN req' = [req EXCEPT ![r] = [base EXCEPT !.pc = "escaped"]]
           ELSE IF ~acceptPrefers /\ ~isMdPath
           THEN req' = [req EXCEPT ![r] =
                          [base EXCEPT !.pc = "proxy", !.pathname = pathname,
                                       !.debugMode = query.debug]]
           ELSE req' = [req EXCEPT ![r] =
                          [base EXCEPT
                             !.pc = IF readsCache(bucket, forceRefresh) THEN "cache" ELSE "upstream",
                             !.pathname = pathname,
                             !.forceRefresh = forceRefresh,
                             !.saveHtml = query.saveHtml,
                             !.acceptPrefers = acceptPrefers,
                             !.key = cacheKey(pathname),
                             !.target = sourcePathname(path, pathname)]]
    /\ UNCHANGED <<variant, bucket, store, now>>

\* index.ts:50-57: the origin's response, with X-Debug-Triggered: proxy
\* under debug=1 (X-Debug-Proxy in worker-md-final.ts:58-63, nothing in
\* worker-md-accept-presence-logs.ts:65-66)
Proxied(v, status, debugMode) ==
    [Response(status, ProxiedBody(status), CT_HTML, "", "")
        EXCEPT !.xtriggered = IF debugMode /\ v # "logs" THEN "proxy" ELSE ""]

\* index.ts:49-57: the request is forwarded to the origin; a failure of
\* this fetch is outside the try block and leaves the handler
Proxy(r, origin) ==
    /\ req[r].pc = "proxy"
    /\ IF origin.failed
       THEN req' = [req EXCEPT ![r].pc = "escaped",
                               ![r].ops = LoggedFetch(r, req[r].path, origin)]
       ELSE req' = [req EXCEPT ![r].pc = "done",
                               ![r].ops = LoggedFetch(r, req[r].path, origin),
                               ![r].resp = Proxied(variant, origin.status, req[r].debugMode)]
    /\ UNCHANGED <<variant, bucket, store, now, started>>

\* a cache check that deletes the object it finds stale or mistyped
CacheCheck_evicts(r, getFails, textFails) ==
    /\ req[r].pc = "cache"
    /\ LET key == req[r].key
       IN  IF getFails
           THEN /\ store' = store
                /\ Respond(r, Logged(r, "get", key, FALSE), InternalError(variant))
           ELSE IF IsHit(key)
           THEN /\ store' = store
                /\ IF textFails
                   THEN Respond(r, Logged(r, "get", key, FALSE), InternalError(variant))
                   ELSE Respond(r, Logged(r, "get", key, TRUE),
                                HitResponse(variant, store[key].payload))
           ELSE /\ store' = [k \in DOMAIN store \ {key} |-> store[k]]
                /\ Goto(r, Logged(r, "get", key, TRUE), "upstream")
    /\ UNCHANGED <<variant, bucket, now, started>>

\* index.ts:83-101: the cache check.  get, or text on the object it
\* returned, can throw; both are inside the try block.
CacheCheck(r, getFails, textFails) ==
    /\ req[r].pc = "cache"
    /\ LET key == req[r].key
       IN  IF getFails
           THEN Respond(r, Logged(r, "get", key, FALSE), InternalError(variant))
           ELSE IF IsHit(key)
           THEN IF textFails
                THEN Respond(r, Logged(r, "get", key, FALSE), InternalError(variant))
                ELSE Respond(r, Logged(r, "get", key, TRUE),
                             HitResponse(variant, store[key].payload))
           ELSE Goto(r, Logged(r, "get", key, TRUE), "upstream")
    /\ UNCHANGED <<variant, bucket, store, now, started>>

\* index.ts:104-122: the origin fetch, once, and the reading of its body
Upstream(r, origin) ==
    /\ req[r].pc = "upstream"
    /\ LET target == req[r].target
       IN  IF origin.failed
           THEN Respond(r, LoggedFetch(r, target, origin), InternalError(variant))
           ELSE IF ~ok(origin.status)
           THEN Respond(r, LoggedFetch(r, target, origin),
                        UpstreamFailed(origin.status, origin.statusText))
           ELSE Goto(r, LoggedFetch(r, target, origin),
                     IF req[r].saveHtml /\ bucket THEN "savehtml" ELSE "convert")
    /\ UNCHANGED <<variant, bucket, store, now, started>>

\* a failed put of the snapshot reaches the outer catch
SaveHtml_fatal(r, putFails) ==
    /\ req[r].pc = "savehtml"
    /\ LET key == htmlKey(req[r].key)
       IN  IF putFails
           THEN /\ store' = store
                /\ Respond(r, Logged(r, "put", key, FALSE), InternalError(variant))
           ELSE /\ store' = Put(key, ORIGIN_HTML, Header(CT_HTML))
                /\ Goto(r, Logged(r, "put", key, TRUE), "convert")
    /\ UNCHANGED <<variant, bucket, now, started>>

\* index.ts:124-134: the snapshot of the origin's body; a failed put is
\* caught and logged
SaveHtml(r, putFails) ==
    /\ req[r].pc = "savehtml"
    /\ LET key == htmlKey(req[r].key)
       IN  /\ store' = IF putFails THEN store ELSE Put(key, ORIGIN_HTML, Header(CT_HTML))
           /\ Goto(r, Logged(r, "put", key, ~putFails), "convert")
    /\ UNCHANGED <<variant, bucket, now, started>>

\* index.ts:137-166: the converter is called and its result is checked
Convert(r, result) ==
    /\ req[r].pc = "convert"
    /\ LET ops == LoggedConvert(r, req[r].target, result)
       IN  IF result.throws
           THEN Respond(r, ops, InternalError(variant))
           ELSE IF invalidResult(result)
           THEN Respond(r, ops, AiInvalidResult)
           ELSE IF looksLikeHtml(result.data)
           THEN IF bucket
                THEN req' = [req EXCEPT ![r].pc = "quarantine", ![r].ops = ops,
                                        ![r].markdown = result.data]
                ELSE req' = [req EXCEPT ![r].pc = "done", ![r].ops = ops,
                                        ![r].markdown = result.data,
                                        ![r].resp = responseDebugHeaders(r,
                                            SuspectResponse(variant, result.data, FALSE, FALSE))]
           ELSE IF bucket
                THEN req' = [req EXCEPT ![r].pc = "save", ![r].ops = ops,
                                        ![r].markdown = result.data]
                ELSE req' = [req EXCEPT ![r].pc = "done", ![r].ops = ops,
                                        ![r].markdown = result.data,
                                        ![r].resp = responseDebugHeaders(r, MarkdownResponse(result.data, FALSE))]
    /\ UNCHANGED <<variant, bucket, store, now, started>>

\* a quarantine step without the return of index.ts:165
Quarantine_fallsThrough(r, putFails) ==
    /\ req[r].pc = "quarantine"
    /\ LET key == debugKey(req[r].key)
       IN  /\ store' = IF putFails THEN store
                       ELSE Put(key, req[r].markdown, Header(CT_PLAIN))
           /\ Goto(r, Logged(r, "put", key, ~putFails), "save")
    /\ UNCHANGED <<variant, bucket, now, started>>

\* index.ts:152-165: the suspect output goes to the .ai-failed.txt key; a
\* failed put is caught
Quarantine(r, putFails) ==
    /\ req[r].pc = "quarantine"
    /\ LET key == debugKey(req[r].key)
       IN  /\ store' = IF putFails THEN store
                       ELSE Put(key, req[r].markdown, Header(CT_PLAIN))
           /\ Respond(r, Logged(r, "put", key, ~putFails),
                      SuspectResponse(variant, req[r].markdown, TRUE, ~putFails))
    /\ UNCHANGED <<variant, bucket, now, started>>

\* what the handler answers when the put of the markdown throws:
\* index.ts:170-177 and worker-md-final.ts:210-218 catch it,
\* worker-md-accept-presence-logs.ts:169-173 lets it reach the outer catch
SaveFailedResponse(v, markdown) ==
    IF v = "logs" THEN InternalError(v) ELSE MarkdownResponse(markdown, TRUE)

\* the answer is returned without the put having been made
SaveMarkdown_notAwaited(r, putFails) ==
    /\ req[r].pc = "save"
    /\ store' = store
    /\ Respond(r, req[r].ops, MarkdownResponse(req[r].markdown, TRUE))
    /\ UNCHANGED <<variant, bucket, now, started>>

\* a put that throws after it has replaced the object
SaveMarkdown_faultAfterPut(r, putFails) ==
    /\ req[r].pc = "save"
    /\ LET key == req[r].key
       IN  /\ store' = Put(key, req[r].markdown, Header(CT_MARKDOWN))
           /\ Respond(r, Logged(r, "put", key, ~putFails),
                      IF putFails
                      THEN SaveFailedResponse(variant, req[r].markdown)
                      ELSE MarkdownResponse(req[r].markdown, TRUE))
    /\ UNCHANGED <<variant, bucket, now, started>>

\* index.ts:169-183: the markdown goes to the primary key
SaveMarkdown(r, putFails) ==
    /\ req[r].pc = "save"
    /\ LET key == req[r].key
       IN  /\ store' = IF putFails THEN store
                       ELSE Put(key, req[r].markdown, Header(CT_MARKDOWN))
           /\ Respond(r, Logged(r, "put", key, ~putFails),
                      IF putFails
                      THEN SaveFailedResponse(variant, req[r].markdown)
                      ELSE MarkdownResponse(req[r].markdown, TRUE))
    /\ UNCHANGED <<variant, bucket, now, started>>

\* the response has been delivered (or the fault reported by the runtime)
\* and the slot takes the next request
Finish(r) ==
    /\ req[r].pc \in {"done", "escaped"}
    /\ req' = [req EXCEPT ![r] = Idle]
    /\ UNCHANGED <<variant, bucket, store, now, started>>

\* time passes
Tick(instant) ==
    /\ TimeLess(now, instant)
    /\ now' = instant
    /\ UNCHANGED <<variant, bucket, store, started, req>>

Queries == [debug : BOOLEAN, refresh : BOOLEAN, saveHtml : BOOLEAN]

\* one request at a time
Next ==
    \/ \E path \in Paths, accept \in Accepts, query \in Queries :
          Start(1, path, accept, query)
    \/ \E origin \in OriginOutcomes : Proxy(1, origin)
    \/ \E getFails \in BOOLEAN, textFails \in BOOLEAN : CacheCheck(1, getFails, textFails)
    \/ \E origin \in OriginOutcomes : Upstream(1, origin)
    \/ \E putFails \in BOOLEAN : SaveHtml(1, putFails)
    \/ \E result \in ConverterOutcomes : Convert(1, result)
    \/ \E putFails \in BOOLEAN : Quarantine(1, putFails)
    \/ \E putFails \in BOOLEAN : SaveMarkdown(1, putFails)
    \/ Finish(1)
    \/ \E instant \in Instants : Tick(instant)

Spec == Init /\ [][Next]_vars

\* url.pathname of the requests of SpecOneRequest: the paths of Spec, the
\* root, repeated, trailing and encoded separators, an encoded '.', an
\* encoded '%', a '.md' with nothing before it and a suffix in upper case
WidePaths ==
    Paths
    \cup { <<"/">>,
           <<"/", "/">>,
           <<"/", "/", "a", ".", "m", "d">>,
           <<"/", "a", "/">>,
           <<"/", "%", "2", "F", "a">>,
           <<"/", "%", "2", "F", "a", ".", "m", "d">>,
           <<"/", "a", "%", "2", "E", "m", "d">>,
           <<"/", "a", "%", "2", "5", ".", "m", "d">>,
           <<"/", "a", "%", "3", "F", ".", "m", "d">>,
           <<"/", ".", "m", "d">>,
           <<"/", "a", ".", "M", "D">> }

\* the first request after deployment, with any of the wide paths
NextOneRequest ==
    \/ \E path \in WidePaths, accept \in Accepts, query \in Queries :
          started = 0 /\ Start(1, path, accept, query)
    \/ \E origin \in OriginOutcomes : Proxy(1, origin)
    \/ \E getFails \in BOOLEAN, textFails \in BOOLEAN : CacheCheck(1, getFails, textFails)
    \/ \E origin \in OriginOutcomes : Upstream(1, origin)
    \/ \E putFails \in BOOLEAN : SaveHtml(1, putFails)
    \/ \E result \in ConverterOutcomes : Convert(1, result)
    \/ \E putFails \in BOOLEAN : Quarantine(1, putFails)
    \/ \E putFails \in BOOLEAN : SaveMarkdown(1, putFails)
    \/ Finish(1)
    \/ \E instant \in Instants : Tick(instant)

SpecOneRequest == Init /\ [][NextOneRequest]_vars

\* the request in slot r has been received and not yet answered
InFlight(r) == req[r].pc \notin {"idle", "done", "escaped"}

\* ?refresh=1
REFRESH_QUERY == [debug |-> FALSE, refresh |-> TRUE, saveHtml |-> FALSE]

\* the origin answers 200 with its page
ORIGIN_OK == [failed |-> FALSE, status |-> 200, statusText |-> statusText(200)]

\* the converter returns the text MD_A
GENUINE_RESULT == Results(FALSE, TRUE, "object", TRUE, MD_A)

\* the bucket is bound
InitBound == Init /\ bucket

\* consecutive requests GET /a.md?refresh=1, each received when no other is
\* being handled, with an origin and a converter that answer the same every
\* time; a request that has been answered stays in its slot until the slot
\* is taken again
NextRefresh ==
    \/ \E r \in Slots :
          /\ \A o \in Slots : ~InFlight(o)
          /\ Start(r, <<"/", "a", ".", "m", "d">>, NoHeader, REFRESH_QUERY)
    \/ \E r \in Slots : Upstream(r, ORIGIN_OK)
    \/ \E r \in Slots : Convert(r, GENUINE_RESULT)
    \/ \E r \in Slots, putFails \in BOOLEAN : SaveMarkdown(r, putFails)
    \/ \E r \in Slots : Finish(r)
    \/ \E instant \in Instants : Tick(instant)

SpecRefresh == InitBound /\ [][NextRefresh]_vars

\* no query string
NO_QUERY == [debug |-> FALSE, refresh |-> FALSE, saveHtml |-> FALSE]

\* the requests of SpecConcurrent: GET /a.md, and GET /a with
\* Accept: text/markdown, which have the same Cache Key
ConcurrentRequests ==
    { [path |-> <<"/", "a", ".", "m", "d">>, accept |-> NoHeader],
      [path |-> <<"/", "a">>, accept |-> Header(TEXT_MARKDOWN)] }

\* the worker handles several requests at once: each await of one request
\* can be followed by a step of another.  The store and the origin answer;
\* the converter returns any text; a put at the primary key can fail.
NextConcurrent ==
    \/ \E r \in Slots, request \in ConcurrentRequests :
          Start(r, request.path, request.accept, NO_QUERY)
    \/ \E r \in Slots : Proxy(r, ORIGIN_OK)
    \/ \E r \in Slots : CacheCheck(r, FALSE, FALSE)
    \/ \E r \in Slots : Upstream(r, ORIGIN_OK)
    \/ \E r \in Slots, text \in Texts :
          Convert(r, Results(FALSE, TRUE, "object", TRUE, text))
    \/ \E r \in Slots : Quarantine(r, FALSE)
    \/ \E r \in Slots, putFails \in BOOLEAN : SaveMarkdown(r, putFails)
    \/ \E r \in Slots : Finish(r)
    \/ \E instant \in Instants : Tick(instant)

SpecConcurrent == InitBound /\ [][NextConcurrent]_vars

\* the query strings of SpecSnapshot: with and without saveHtml=1, with and
\* without refresh=1
SnapshotQueries == [debug : {FALSE}, refresh : BOOLEAN, saveHtml : BOOLEAN]

\* requests GET /a.md that differ in their query string, handled at once or
\* one after the other; the origin answers 200, the converter does
\* anything, and every put can fail
NextSnapshot ==
    \/ \E r \in Slots, query \in SnapshotQueries :
          Start(r, <<"/", "a", ".", "m", "d">>, NoHeader, query)
    \/ \E r \in Slots : CacheCheck(r, FALSE, FALSE)
    \/ \E r \in Slots : Upstream(r, ORIGIN_OK)
    \/ \E r \in Slots, putFails \in BOOLEAN : SaveHtml(r, putFails)
    \/ \E r \in Slots, result \in ConverterOutcomes : Convert(r, result)
    \/ \E r \in Slots, putFails \in BOOLEAN : Quarantine(r, putFails)
    \/ \E r \in Slots, putFails \in BOOLEAN : SaveMarkdown(r, putFails)
    \/ \E r \in Slots : Finish(r)

SpecSnapshot == InitBound /\ [][NextSnapshot]_vars

----------------------------------------------------------------------------
\* Properties

Last(s) == s[Len(s)]

\* the request in slot r is on the conversion path
Triggered(r) == req[r].key # <<>>

\* the keys that requests derive as their Cache Key
PrimaryKeys ==
    { cacheKey(decodeURIComponent(p).value) :
        p \in {q \in Paths : decodeURIComponent(q).ok} }

\* the text, after leading white space, begins with '<'
BeginsWithLt(text) ==
    \E i \in DOMAIN text :
        /\ text[i] = "<"
        /\ \A j \in 1..(i - 1) : text[j] \in WhiteSpace

\* less than 90 days have passed since t
AgeBelow90Days(t) == TimeMinus(now, t).d < 90

\* the content type, in lower case, starts with text/markdown
DeclaredMarkdown(contentType) ==
    /\ contentType.present
    /\ Len(contentType.value) >= Len(TEXT_MARKDOWN)
    /\ \A i \in DOMAIN TEXT_MARKDOWN :
          toLowerChar(contentType.value[i]) = TEXT_MARKDOWN[i]

\* the converter returned a non-empty list whose first entry has text
ReturnedText(results) ==
    /\ ~results.throws
    /\ results.isArray
    /\ results.first = "object"
    /\ results.dataIsString

\* C1: no object at a primary Cache Key has a payload that, trimmed, begins
\* with '<'; a converter text of that kind is stored only at a key of the
\* form <Cache Key>.ai-failed.txt.
C1_NoSuspectAtPrimaryKey ==
    /\ \A k \in DOMAIN store \cap PrimaryKeys : ~BeginsWithLt(store[k].payload)
    /\ \A k \in DOMAIN store :
          (store[k].payload \in Texts /\ BeginsWithLt(store[k].payload))
             => \E pk \in PrimaryKeys : k = pk \o AI_FAILED_TXT

\* a suspect text sits at the quarantine key next to a primary object
C1_Witness ==
    \E pk \in PrimaryKeys :
        /\ pk \in DOMAIN store
        /\ (pk \o AI_FAILED_TXT) \in DOMAIN store
        /\ BeginsWithLt(store[pk \o AI_FAILED_TXT].payload)

\* the step in which the request of slot r, whose converter returned a
\* suspect text, is answered
SuspectAnswered(r) ==
    /\ req[r].pc # "done"
    /\ req'[r].pc = "done"
    /\ BeginsWithLt(req'[r].markdown)

\* C2: when the converter returns a text that, trimmed, begins with '<', the
\* request answers 200, text/plain, with that text as body, puts the text at
\* <Cache Key>.ai-failed.txt when the store is configured, and never puts
\* or changes the object at the primary Cache Key, refresh=1 or not.
C2_SuspectOutputQuarantined ==
    [][\A r \in Slots :
          SuspectAnswered(r) =>
             LET q == req'[r]
                 k == q.key
             IN  /\ q.resp.status = 200
                 /\ q.resp.contentType = CT_PLAIN
                 /\ q.resp.body.kind = "text"
                 /\ q.resp.body.text = q.markdown
                 /\ bucket =>
                       /\ Last(q.ops).op = "put"
                       /\ Last(q.ops).arg = k \o AI_FAILED_TXT
                       /\ Last(q.ops).ok =>
                             /\ (k \o AI_FAILED_TXT) \in DOMAIN store'
                             /\ store'[k \o AI_FAILED_TXT].payload = q.markdown
                 /\ (k \in DOMAIN store') <=> (k \in DOMAIN store)
                 /\ k \in DOMAIN store => store'[k] = store[k]
                 /\ \A i \in DOMAIN q.ops : ~(q.ops[i].op = "put" /\ q.ops[i].arg = k)
      ]_vars

\* a request with refresh=1 whose suspect output was quarantined while an
\* artifact sat at its primary key
C2_Witness ==
    \E r \in Slots :
        /\ req[r].pc = "done"
        /\ BeginsWithLt(req[r].markdown)
        /\ req[r].forceRefresh
        /\ req[r].key \in DOMAIN store
        /\ Last(req[r].ops).op = "put"
        /\ Last(req[r].ops).ok

\* C3: a request without refresh=1 that reads, at its key, a Genuine payload
\* M written as text/markdown less than 90 days ago answers 200 with body M
\* and does nothing but that one read (the read itself succeeding).
C3_FreshArtifactServedFromStore ==
    [][\A r \in Slots :
          LET k == req[r].key
          IN  ( /\ req[r].pc = "cache"
                /\ req'[r].pc # "cache"
                /\ Last(req'[r].ops).ok
                /\ k \in DOMAIN store
                /\ store[k].contentType = Header(CT_MARKDOWN)
                /\ ~BeginsWithLt(store[k].payload)
                /\ AgeBelow90Days(store[k].uploaded) )
              => /\ req'[r].pc = "done"
                 /\ req'[r].resp.status = 200
                 /\ req'[r].resp.body.kind = "text"
                 /\ req'[r].resp.body.text = store[k].payload
                 /\ req'[r].ops = <<Op("get", k, TRUE, 0, NoResults)>>
                 /\ store' = store
      ]_vars

\* the second request is served the markdown that the first one stored
C3_Witness ==
    \E r \in Slots :
        /\ started = 2
        /\ req[r].pc = "done"
        /\ req[r].resp.xcache = "r2"
        /\ req[r].resp.body.text = MD_A
        /\ now # EPOCH

\* C4: with the store read, the lookup is a Hit exactly when an object
\* exists at the key, its content type in lower case starts with
\* text/markdown and its age is strictly below 90 days; anything else is a
\* Miss and goes on to the origin fetch.
C4_HitIffPresentMarkdownAndFresh ==
    [][\A r \in Slots :
          LET k == req[r].key
              hit == /\ k \in DOMAIN store
                     /\ DeclaredMarkdown(store[k].contentType)
                     /\ AgeBelow90Days(store[k].uploaded)
          IN  ( /\ req[r].pc = "cache"
                /\ req'[r].pc # "cache"
                /\ Last(req'[r].ops).ok )
              => /\ hit => /\ req'[r].pc = "done"
                           /\ req'[r].resp.status = 200
                           /\ req'[r].resp.xcache = "r2"
                 /\ ~hit => req'[r].pc = "upstream"
      ]_vars

\* an object aged exactly 90 days was read and the request went on to the
\* origin
C4_Witness ==
    \E r \in Slots :
        /\ req[r].pc = "upstream"
        /\ Len(req[r].ops) = 1
        /\ req[r].ops[1].op = "get"
        /\ req[r].key \in DOMAIN store
        /\ DeclaredMarkdown(store[req[r].key].contentType)
        /\ TimeMinus(now, store[req[r].key].uploaded) = [d |-> 90, ms |-> 0]

\* C5: a triggered request with refresh=1 never calls get, goes to the
\* origin fetch first, and with the store configured a Genuine conversion
\* is put at the primary key, which then holds the new payload.
C5_RefreshBypassesCacheAndOverwrites ==
    [][\A r \in Slots :
          LET q == req'[r]
              k == q.key
          IN  (q.forceRefresh /\ k # <<>>) =>
                 /\ q.pc # "cache"
                 /\ \A i \in DOMAIN q.ops : q.ops[i].op # "get"
                 /\ q.ops # <<>> => q.ops[1].op = "fetch"
                 /\ ( /\ req[r].pc = "convert"
                      /\ q.pc # "convert"
                      /\ bucket
                      /\ ReturnedText(Last(q.ops).results)
                      /\ ~BeginsWithLt(Last(q.ops).results.data) )
                    => q.pc = "save"
                 /\ (req[r].pc = "save" /\ q.pc # "save" /\ Last(q.ops).ok)
                    => /\ q.pc = "done"
                       /\ k \in DOMAIN store'
                       /\ store'[k].payload = q.markdown
                       /\ store'[k].contentType = Header(CT_MARKDOWN)
                       /\ store'[k].uploaded = now
      ]_vars

\* a request with refresh=1 is about to put its markdown over a fresh valid
\* artifact with another payload
C5_Witness ==
    \E r \in Slots :
        /\ req[r].forceRefresh
        /\ req[r].pc = "save"
        /\ req[r].key \in DOMAIN store
        /\ DeclaredMarkdown(store[req[r].key].contentType)
        /\ AgeBelow90Days(store[req[r].key].uploaded)
        /\ store[req[r].key].payload # req[r].markdown

\* C6: when the origin fetch of a triggered request returns a status that
\* is not 2xx, the request answers 502 with the status and the status text
\* in the body; that fetch is its only fetch and its last call: no
\* converter call and no put.
C6_UpstreamNon2xxAnswers502 ==
    \A r \in Slots :
        \A i \in DOMAIN req[r].ops :
            LET o == req[r].ops[i]
            IN  ( /\ Triggered(r)
                  /\ o.op = "fetch"
                  /\ o.ok
                  /\ ~(o.status >= 200 /\ o.status <= 299) )
                => /\ req[r].pc = "done"
                   /\ req[r].resp.status = 502
                   /\ req[r].resp.body.kind = "upstream-failed"
                   /\ req[r].resp.body.status = o.status
                   /\ req[r].resp.body.statusText = statusText(o.status)
                   /\ i = Len(req[r].ops)
                   /\ \A j \in DOMAIN req[r].ops :
                         /\ req[r].ops[j].op \notin {"put", "toMarkdown"}
                         /\ req[r].ops[j].op = "fetch" => j = i

\* the origin answered 304 and the request answered 502
C6_Witness ==
    \E r \in Slots :
        /\ Triggered(r)
        /\ req[r].pc = "done"
        /\ req[r].resp.status = 502
        /\ req[r].resp.body.status = 304

\* C7: when the origin fetch of a triggered request fails with a transport
\* error, the request answers 502.
C7_TransportErrorAnswers502 ==
    \A r \in Slots :
        ( /\ Triggered(r)
          /\ req[r].pc = "done"
          /\ \E i \in DOMAIN req[r].ops :
                req[r].ops[i].op = "fetch" /\ ~req[r].ops[i].ok )
        => req[r].resp.status = 502

\* C8: when the read at the cache key fails, the request goes on to the
\* origin fetch as on a Miss and is not answered with a failure.
C8_StoreReadFailureIsMiss ==
    \A r \in Slots :
        ( /\ Len(req[r].ops) = 1
          /\ req[r].ops[1].op = "get"
          /\ ~req[r].ops[1].ok )
        => req[r].pc = "upstream"

\* C9: when the converter returned a Genuine payload and the put at the
\* primary key fails, the request answers 200 with the markdown as body.
C9_WriteFailureStillAnswersMarkdown ==
    \A r \in Slots :
        ( /\ req[r].pc = "done"
          /\ Last(req[r].ops).op = "put"
          /\ Last(req[r].ops).arg = req[r].key
          /\ ~Last(req[r].ops).ok )
        => /\ req[r].resp.status = 200
           /\ req[r].resp.body.kind = "text"
           /\ req[r].resp.body.text = req[r].markdown

\* C10: when the converter throws or returns anything but a non-empty list
\* whose first entry has text, the request answers 500 and puts nothing at
\* the primary key or at the quarantine key.
C10_InvalidConversionAnswers500 ==
    \A r \in Slots :
        \A i \in DOMAIN req[r].ops :
            (req[r].ops[i].op = "toMarkdown" /\ ~ReturnedText(req[r].ops[i].results))
            => /\ req[r].pc = "done"
               /\ req[r].resp.status = 500
               /\ \A j \in DOMAIN req[r].ops :
                     ~( /\ req[r].ops[j].op = "put"
                        /\ req[r].ops[j].arg \in {req[r].key, req[r].key \o AI_FAILED_TXT} )

\* the converter returned an object that is no list and the request
\* answered 500
C10_Witness ==
    \E r \in Slots :
        /\ req[r].pc = "done"
        /\ req[r].resp.status = 500
        /\ Last(req[r].ops).op = "toMarkdown"
        /\ ~Last(req[r].ops).results.throws
        /\ ~Last(req[r].ops).results.isArray

\* C11: a fault raised while a request is handled (decoding the path, the
\* pass-through fetch, a store read, the origin fetch, the conversion) never
\* leaves the handler, and the request answers 500 with its request id in
\* the body.
C11_EveryFaultAnswered500WithId ==
    \A r \in Slots :
        /\ req[r].pc # "escaped"
        /\ ( /\ req[r].pc = "done"
             /\ \E i \in DOMAIN req[r].ops :
                   /\ req[r].ops[i].op \in {"get", "fetch", "toMarkdown"}
                   /\ ~req[r].ops[i].ok )
           => /\ req[r].resp.status = 500
              /\ req[r].resp.body.reqId

\* the last three characters of the path are '.md'
EndsInDotMd(path) ==
    /\ Len(path) >= 3
    /\ path[Len(path) - 2] = "."
    /\ path[Len(path) - 1] = "m"
    /\ path[Len(path)] = "d"

\* the header lists the media type lit as a whole: in any letter case,
\* preceded by the start of the header, a comma or a space, and followed by
\* its end, a comma, a semicolon or a space
ListsMediaType(accept, lit) ==
    /\ accept.present
    /\ \E i \in DOMAIN accept.value :
          LET j == i + Len(lit) - 1
          IN  /\ j <= Len(accept.value)
              /\ \A k \in DOMAIN lit : toLowerChar(accept.value[i + k - 1]) = lit[k]
              /\ (i = 1 \/ accept.value[i - 1] \in {",", " "})
              /\ (j = Len(accept.value) \/ accept.value[j + 1] \in {",", ";", " "})

AsksForMarkdown(accept) ==
    \/ ListsMediaType(accept, TEXT_MARKDOWN)
    \/ ListsMediaType(accept, TEXT_PLAIN)

\* C12: a request whose decoded path does not end in '.md' and whose Accept
\* header is absent or lists neither text/markdown nor text/plain is passed
\* through: the request is forwarded to the origin once, the origin's
\* status is answered, and there is no store read, store write or
\* conversion.
C12_UntriggeredRequestIsPassedThrough ==
    [][\A r \in Slots :
          /\ (req[r].pc = "idle" /\ req'[r].pc \notin {"idle", "escaped"})
             => \A path \in Paths, accept \in Accepts, query \in Queries :
                    ( /\ Start(r, path, accept, query)
                      /\ ~EndsInDotMd(req'[r].pathname)
                      /\ ~AsksForMarkdown(accept) )
                    => req'[r].pc = "proxy"
          /\ (req[r].pc = "proxy" /\ req'[r].pc # "proxy")
             => /\ store' = store
                /\ Len(req'[r].ops) = 1
                /\ req'[r].ops[1].op = "fetch"
                /\ req'[r].ops[1].arg = req[r].path
                /\ req'[r].ops[1].ok
                      => /\ req'[r].pc = "done"
                         /\ req'[r].resp.status = req'[r].ops[1].status
      ]_vars

\* C13: the header trigger fires only when the Accept header lists
\* text/markdown or text/plain as a whole media type; a header that has
\* them only inside a longer token, such as text/plain-extended, does not
\* trigger, and with a path not ending in '.md' the request is not on the
\* conversion path.
C13_HeaderTriggerNeedsWholeToken ==
    [][\A r \in Slots :
          (req[r].pc = "idle" /\ req'[r].pc \notin {"idle", "escaped"})
          => \A path \in Paths, accept \in Accepts, query \in Queries :
                 Start(r, path, accept, query)
                 => /\ req'[r].acceptPrefers => AsksForMarkdown(accept)
                    /\ (~AsksForMarkdown(accept) /\ ~EndsInDotMd(req'[r].pathname))
                       => ~Triggered(r)'
      ]_vars

\* the path without its first character
WithoutFirst(path) == [i \in 1..(Len(path) - 1) |-> path[i + 1]]

\* the path without its last three characters
WithoutSuffix(path) == [i \in 1..(Len(path) - 3) |-> path[i]]

\* the path without one leading and one trailing separator
BetweenSeparators(path) ==
    LET lo == IF Len(path) >= 1 /\ path[1] = "/" THEN 2 ELSE 1
        hi == IF Len(path) >= lo /\ path[Len(path)] = "/" THEN Len(path) - 1 ELSE Len(path)
    IN  [i \in 1..(hi - lo + 1) |-> path[lo + i - 1]]

\* C14: for a request whose decoded path ends in '.md', with or without a
\* triggering Accept header, the Cache Key is the decoded path without its
\* leading separator, suffix kept, and the path of the Source Target is the
\* path of the request URL without its trailing '.md'.
C14_PathTriggerKeyAndTarget ==
    \A r \in Slots :
        (Triggered(r) /\ EndsInDotMd(req[r].pathname))
        => /\ req[r].key = WithoutFirst(req[r].pathname)
           /\ EndsInDotMd(req[r].path) => req[r].target = WithoutSuffix(req[r].path)

\* C15: for a header-triggered request whose decoded path does not end in
\* '.md', the Cache Key is the path without its leading and trailing
\* separator, 'index' when nothing is left, with '.md' appended, and the
\* path of the Source Target is the path of the request URL; '/' gives
\* 'index.md'.
C15_HeaderTriggerKeyAndTarget ==
    \A r \in Slots :
        (Triggered(r) /\ ~EndsInDotMd(req[r].pathname))
        => /\ req[r].key =
                 (IF BetweenSeparators(req[r].pathname) = <<>>
                  THEN <<"i", "n", "d", "e", "x">>
                  ELSE BetweenSeparators(req[r].pathname)) \o <<".", "m", "d">>
           /\ req[r].target = req[r].path

\* a header-triggered request to '/' was answered the markdown it stored
\* at index.md
C15_Witness ==
    \E r \in Slots :
        /\ req[r].path = <<"/">>
        /\ req[r].acceptPrefers
        /\ req[r].key = <<"i", "n", "d", "e", "x", ".", "m", "d">>
        /\ req[r].pc = "done"
        /\ req[r].resp.status = 200
        /\ req[r].key \in DOMAIN store
        /\ store[req[r].key].payload = req[r].markdown

\* C16: the Cache Key of every triggered request, repeated separators in
\* the path or not, ends in '.md' and does not begin with a separator.
C16_KeyEndsInMdWithoutLeadingSeparator ==
    \A r \in Slots :
        Triggered(r)
        => /\ EndsInDotMd(req[r].key)
           /\ req[r].key[1] # "/"

\* C17: for a path p that ends neither in '.md' nor in a separator, the
\* header-triggered request to p has the Cache Key and the Source Target
\* that the path-triggered request to p + '.md' has.
C17_BothTriggersResolveAlike ==
    \A r \in Slots :
        ( /\ Triggered(r)
          /\ req[r].acceptPrefers
          /\ ~EndsInDotMd(req[r].pathname)
          /\ req[r].path[Len(req[r].path)] # "/"
          /\ req[r].pathname[Len(req[r].pathname)] # "/" )
        => LET sibling == req[r].path \o <<".", "m", "d">>
               decoded == decodeURIComponent(sibling).value
           IN  /\ req[r].key = cacheKey(decoded)
               /\ req[r].target = sourcePathname(sibling, decoded)

\* the request in slot r has been answered and its last call, a put at its
\* Cache Key, succeeded
WroteArtifact(r) ==
    /\ req[r].pc = "done"
    /\ Last(req[r].ops).op = "put"
    /\ Last(req[r].ops).arg = req[r].key
    /\ Last(req[r].ops).ok

\* the request in slot r answered 200 with its markdown, which is the
\* payload at its Cache Key
AnsweredStoredPayload(r) ==
    /\ req[r].resp.status = 200
    /\ req[r].resp.body.kind = "text"
    /\ req[r].resp.body.text = req[r].markdown
    /\ req[r].key \in DOMAIN store
    /\ store[req[r].key].payload = req[r].markdown

C19_LastWriteWins ==
    [][/\ \A k \in DOMAIN store : k \in DOMAIN store'
       /\ \A k \in PrimaryKeys \cap DOMAIN store' :
             (k \notin DOMAIN store \/ store'[k] # store[k])
             => \E r \in Slots :
                    /\ req[r].pc = "save"
                    /\ req'[r].pc = "done"
                    /\ req[r].key = k
                    /\ Last(req'[r].ops).ok
       /\ \A r \in Slots :
             (req[r].pc = "save" /\ req'[r].pc = "done" /\ Last(req'[r].ops).ok)
             => /\ req[r].key \in DOMAIN store'
                /\ store'[req[r].key].payload = req[r].markdown
                /\ req[r].markdown \in Texts
                /\ ~BeginsWithLt(req[r].markdown)
      ]_vars

\* two requests for one key have both read the store and found nothing to
\* serve, both fetched the origin, both called the converter, which gave
\* them different texts, and both written the key, all at one instant (so
\* that neither began after the other had written); the key holds the text
\* of the one in slot 1
C19_Witness ==
    /\ now = EPOCH
    /\ \A r \in Slots :
          /\ WroteArtifact(r)
          /\ Len(req[r].ops) = 4
          /\ req[r].ops[1].op = "get"
          /\ req[r].ops[2].op = "fetch"
          /\ req[r].ops[3].op = "toMarkdown"
    /\ req[1].key = req[2].key
    /\ req[1].markdown # req[2].markdown
    /\ store[req[1].key].payload = req[1].markdown

\* the place of a call in the order cache read, origin fetch, snapshot
\* write, conversion, primary or quarantine write
StepRank(o, key) ==
    CASE o.op = "get" -> 1
      [] o.op = "fetch" -> 2
      [] o.op = "put" /\ o.arg = key \o SOURCE_HTML -> 3
      [] o.op = "toMarkdown" -> 4
      [] o.op = "put" /\ o.arg \in {key, key \o AI_FAILED_TXT} -> 5
      [] OTHER -> 0

\* the calls of the triggered request in slot r, each of them completed,
\* are in order; the one that follows is not made before the last of them
\* has returned; the answer exists only once the handler is through, and
\* the answer to a conversion with the store configured comes after the
\* put of the text, carried out or failed
StepsInOrder(r) ==
    LET q == req[r]
        n == Len(q.ops)
        last == IF n = 0 THEN 0 ELSE StepRank(q.ops[n], q.key)
    IN  /\ \A i \in DOMAIN q.ops : StepRank(q.ops[i], q.key) > 0
        /\ \A i, j \in DOMAIN q.ops :
              i < j => StepRank(q.ops[i], q.key) < StepRank(q.ops[j], q.key)
        /\ q.pc = "cache" => n = 0
        /\ q.pc = "upstream" => last \in {0, 1}
        /\ q.pc = "savehtml" => last = 2
        /\ q.pc = "convert" => last \in {2, 3}
        /\ q.pc \in {"quarantine", "save"} => last = 4
        /\ (q.resp # NoResponse) <=> (q.pc = "done")
        /\ ( /\ q.pc = "done"
             /\ bucket
             /\ \E i \in DOMAIN q.ops :
                   q.ops[i].op = "toMarkdown" /\ ReturnedText(q.ops[i].results) )
           => last = 5

\* C20: within a triggered request the calls are made in the order cache
\* read (if any), origin fetch, snapshot write (if any), conversion,
\* primary or quarantine write (if any), each after the one before has
\* returned; no store write comes before the origin fetch, and the answer
\* comes after the last write has been carried out or has failed, with no
\* call after it.
C20_StepsStrictlySequential ==
    [][\A r \in Slots :
          /\ Triggered(r)' => StepsInOrder(r)'
          /\ (req[r].pc = "done" /\ req'[r].pc = "done") => req'[r] = req[r]
      ]_vars

\* a request that read the store, fetched the origin, wrote the snapshot,
\* converted and wrote the markdown, and was then answered
C20_Witness ==
    \E r \in Slots :
        /\ req[r].pc = "done"
        /\ Len(req[r].ops) = 5
        /\ req[r].ops[1].op = "get"
        /\ req[r].ops[3].arg = req[r].key \o SOURCE_HTML
        /\ req[r].ops[5].arg = req[r].key
        /\ req[r].resp.status = 200

\* C21: on the conversion path a 200 answer with markdown, read from the
\* store or freshly converted, has Content-Type text/markdown;
\* charset=utf-8, and the answer with a quarantined text has text/plain;
\* charset=utf-8.
C21_ContentTypeOfAnswers ==
    \A r \in Slots :
        ( /\ Triggered(r)
          /\ req[r].pc = "done"
          /\ req[r].resp.status = 200
          /\ req[r].resp.body.kind = "text" )
        => IF req[r].resp.xcache # "r2" /\ BeginsWithLt(req[r].resp.body.text)
           THEN req[r].resp.contentType = CT_PLAIN
           ELSE req[r].resp.contentType = CT_MARKDOWN

\* C22: with no store configured a triggered request makes no store call,
\* and its 200 answer, for a Genuine and for a suspect text alike, has a
\* cache status that tells that nothing was stored, other than the status
\* of a hit and of a stored regeneration.
C22_NoStoreNoCallsAndSignal ==
    \A r \in Slots :
        (~bucket /\ Triggered(r))
        => /\ \A i \in DOMAIN req[r].ops : req[r].ops[i].op \notin {"get", "put"}
           /\ (req[r].pc = "done" /\ req[r].resp.status = 200)
              => req[r].resp.xcache \notin {"", "r2", "miss,r2-updated"}

\* the last fetch recorded for the request returned a 2xx status
FetchedOk(q) ==
    \E i \in DOMAIN q.ops :
        /\ q.ops[i].op = "fetch"
        /\ q.ops[i].ok
        /\ q.ops[i].status \in 200..299

\* the object at key k exists after the step and did not, or was another
\* one, before it
Written(k) == k \in DOMAIN store' /\ (k \notin DOMAIN store \/ store'[k] # store[k])

\* C23: an object at <Cache Key>.source.html is created or changed only by
\* a request with saveHtml=1, the store configured and a 2xx origin answer,
\* and an object at <Cache Key>.ai-failed.txt only by a request whose
\* converter text, trimmed, begins with '<'.
C23_SnapshotAndQuarantineWriters ==
    [][\A pk \in PrimaryKeys :
          /\ Written(pk \o SOURCE_HTML)
             => \E r \in Slots :
                    /\ req'[r] # req[r]
                    /\ req[r].key = pk
                    /\ req[r].saveHtml
                    /\ bucket
                    /\ FetchedOk(req[r])
                    /\ store'[pk \o SOURCE_HTML].payload = ORIGIN_HTML
          /\ Written(pk \o AI_FAILED_TXT)
             => \E r \in Slots :
                    /\ req'[r] # req[r]
                    /\ req[r].key = pk
                    /\ Last(req[r].ops).op = "toMarkdown"
                    /\ ReturnedText(Last(req[r].ops).results)
                    /\ BeginsWithLt(Last(req[r].ops).results.data)
                    /\ store'[pk \o AI_FAILED_TXT].payload = Last(req[r].ops).results.data
      ]_vars

\* a request has left a snapshot and a quarantined text next to its key
C23_Witness ==
    \E r \in Slots :
        /\ req[r].pc = "done"
        /\ req[r].saveHtml
        /\ (req[r].key \o SOURCE_HTML) \in DOMAIN store
        /\ (req[r].key \o AI_FAILED_TXT) \in DOMAIN store
        /\ Len(req[r].ops) >= 4
        /\ Last(req[r].ops).arg = req[r].key \o AI_FAILED_TXT
        /\ Last(req[r].ops).ok

\* the call is the put of the snapshot of request q
IsSnapshotPut(q, o) == o.op = "put" /\ o.arg = q.key \o SOURCE_HTML

\* the calls of request q without the put of the snapshot
OtherCalls(q) == SelectSeq(q.ops, LAMBDA o : ~IsSnapshotPut(q, o))

\* what a call returned
Outcome(o) == [ok |-> o.ok, status |-> o.status, results |-> o.results]

\* C24: a request with saveHtml=1 whose snapshot put failed, and the same
\* request without saveHtml that was not served from the store, for which
\* the origin, the converter and the store returned the same, have made the
\* same calls but for the snapshot (the conversion and the put at the
\* primary key among them) and have the same answer.
C24_FailedSnapshotChangesNothing ==
    \A r1, r2 \in Slots :
        LET a == req[r1]
            b == req[r2]
            calls == OtherCalls(a)
            common == IF Len(calls) < Len(b.ops) THEN Len(calls) ELSE Len(b.ops)
        IN  ( /\ a.pc = "done"
              /\ b.pc = "done"
              /\ a.path = b.path
              /\ a.acceptPrefers = b.acceptPrefers
              /\ a.forceRefresh = b.forceRefresh
              /\ a.saveHtml
              /\ ~b.saveHtml
              /\ \E i \in DOMAIN a.ops : IsSnapshotPut(a, a.ops[i]) /\ ~a.ops[i].ok
              /\ \E i \in DOMAIN b.ops : b.ops[i].op = "fetch"
              /\ \A i \in 1..common : Outcome(calls[i]) = Outcome(b.ops[i]) )
            => /\ calls = b.ops
               /\ \E i \in DOMAIN calls : calls[i].op = "toMarkdown"
               /\ a.resp = b.resp
               /\ a.markdown = b.markdown

\* both requests were answered the markdown they put at the primary key,
\* the one after its snapshot put had failed
C24_Witness ==
    /\ req[1].saveHtml
    /\ ~req[2].saveHtml
    /\ \A r \in Slots : WroteArtifact(r)
    /\ \E i \in DOMAIN req[1].ops : IsSnapshotPut(req[1], req[1].ops[i]) /\ ~req[1].ops[i].ok
    /\ req[1].resp = req[2].resp

\* the object at key k is not a Hit: it is too old or not declared markdown
StaleOrMistyped(k) == k \in DOMAIN store /\ ~IsHit(k)

\* C25: no step removes a key from the store, and an object at a primary
\* key, a stale or mistyped one included, is left as it is by every step
\* but the put of a request with that key, which leaves a Genuine payload
\* declared markdown.
C25_NoDeletion ==
    [][ /\ DOMAIN store \subseteq DOMAIN store'
        /\ \A pk \in PrimaryKeys \cap DOMAIN store :
              store'[pk] # store[pk]
              => /\ ~BeginsWithLt(store'[pk].payload)
                 /\ DeclaredMarkdown(store'[pk].contentType)
                 /\ \E r \in Slots : req[r].key = pk /\ req[r].pc = "save" /\ req'[r].pc = "done"
      ]_vars

\* a request that found a stale or mistyped object at its key was answered
\* 502 or 500 or a quarantined output, and the object is still there
C25_Witness ==
    \E r \in Slots :
        /\ req[r].pc = "done"
        /\ Len(req[r].ops) >= 2
        /\ req[r].ops[1].op = "get"
        /\ req[r].ops[1].ok
        /\ ~WroteArtifact(r)
        /\ StaleOrMistyped(req[r].key)

\* the step answers the triggered request in slot r with 502 or 500
AnswersFailure(r) ==
    /\ req[r].pc \notin {"idle", "done", "escaped"}
    /\ req[r].key # <<>>
    /\ req'[r].pc = "done"
    /\ req'[r].resp.status \in {500, 502}

\* C26: a triggered request answered 502 or 500 has made no successful put
\* at its primary key, the step that answers it leaves the object at that
\* key as it was, absent if it was absent, and an object that was a Hit
\* before that step is a Hit after it, a request with refresh=1 included.
C26_FailureLeavesPrimaryObject ==
    [][\A r \in Slots :
          AnswersFailure(r)
          => LET key == req[r].key
             IN  /\ \A i \in DOMAIN req'[r].ops :
                       ~( /\ req'[r].ops[i].op = "put"
                          /\ req'[r].ops[i].arg = key
                          /\ req'[r].ops[i].ok )
                 /\ key \in DOMAIN store' <=> key \in DOMAIN store
                 /\ key \in DOMAIN store => store'[key] = store[key]
                 /\ IsHit(key) => (IsHit(key))'
      ]_vars

\* a request with refresh=1 was answered 502 or 500 after the origin or the
\* converter had been called, and the object at its key is still a Hit
C26_Witness ==
    \E r \in Slots :
        /\ req[r].pc = "done"
        /\ req[r].forceRefresh
        /\ req[r].resp.status \in {500, 502}
        /\ req[r].ops # <<>>
        /\ req[r].ops[1].op = "fetch"
        /\ IsHit(req[r].key)

\* a request to path p can be a triggered one: p decodes, and it ends in
\* '.md' or the worker looks at the Accept header
CanTrigger(p) ==
    /\ decodeURIComponent(p).ok
    /\ \/ EndsInDotMd(decodeURIComponent(p).value)
       \/ variant # "final"

\* C27: a triggered request and a triggered request to any other path of
\* the same host that resolves to the same Cache Key have the same Source
\* Target.
C27_SameKeySameTarget ==
    \A r \in Slots :
        Triggered(r)
        => \A p \in WidePaths :
              LET decoded == decodeURIComponent(p).value
              IN  (CanTrigger(p) /\ cacheKey(decoded) = req[r].key)
                  => sourcePathname(p, decoded) = req[r].target

\* C28: a request answered with X-Cache 'miss,r2-updated' has made a
\* successful put at its Cache Key, and the object at that key is the
\* returned text, declared text/markdown.
C28_UpdatedMeansWritten ==
    \A r \in Slots :
        (req[r].pc = "done" /\ req[r].resp.xcache = "miss,r2-updated")
        => /\ WroteArtifact(r)
           /\ req[r].key \in DOMAIN store
           /\ store[req[r].key].payload = req[r].resp.body.text
           /\ DeclaredMarkdown(store[req[r].key].contentType)

\* how many calls of request q satisfy Test
Count(q, Test(_)) == Cardinality({i \in DOMAIN q.ops : Test(q.ops[i])})

\* C29: a triggered request makes at most one read of the store, one fetch
\* of the origin, one call of the converter, one put of the snapshot and
\* one put at the primary or the quarantine key, never at both; a request
\* answered from the store or passed through makes no call of the
\* converter.
C29_AtMostOnceEach ==
    \A r \in Slots :
        LET q == req[r]
        IN  /\ Triggered(r)
               => /\ Count(q, LAMBDA o : o.op = "get") <= 1
                  /\ Count(q, LAMBDA o : o.op = "fetch") <= 1
                  /\ Count(q, LAMBDA o : o.op = "toMarkdown") <= 1
                  /\ Count(q, LAMBDA o : IsSnapshotPut(q, o)) <= 1
                  /\ Count(q, LAMBDA o : o.op = "put" /\ o.arg \in {q.key, q.key \o AI_FAILED_TXT}) <= 1
                  /\ Len(q.ops) <= 5
            /\ (q.pc = "done" /\ (q.resp.xcache = "r2" \/ ~Triggered(r)))
               => Count(q, LAMBDA o : o.op = "toMarkdown") = 0

\* the second request of the run has made all five calls: the read, the
\* fetch, the put of the snapshot, the conversion and one more put
C29_Witness ==
    \E r \in Slots :
        /\ req[r].pc = "done"
        /\ Len(req[r].ops) = 5
        /\ Count(req[r], LAMBDA o : o.op = "put") = 2
        /\ started = 2

\* paths that spell the key of a snapshot or of a quarantined output
ArtifactPaths ==
    { <<"/", "a", ".", "m", "d">> \o SOURCE_HTML,
      <<"/", "a", ".", "m", "d">> \o AI_FAILED_TXT,
      <<"/", "a">> \o SOURCE_HTML,
      <<"/", "a">> \o AI_FAILED_TXT,
      <<"/", "a", ".", "m", "d">> \o SOURCE_HTML \o DOT_MD }

\* call i of request q is its put of the snapshot or of the quarantined
\* output: a put that is followed by the conversion, or the put of a
\* suspect text
IsSidePut(q, i) ==
    /\ q.ops[i].op = "put"
    /\ \/ i < Len(q.ops)
       \/ BeginsWithLt(q.markdown)

\* C30: the key at which a request puts the snapshot or the quarantined
\* output is not the Cache Key of any triggered request, its own included.
C30_SideKeysAreNoPrimaryKeys ==
    \A r \in Slots :
        \A i \in DOMAIN req[r].ops :
            IsSidePut(req[r], i)
            => \A p \in WidePaths \cup ArtifactPaths :
                   CanTrigger(p) => cacheKey(decodeURIComponent(p).value) # req[r].ops[i].arg

\* a request has put the snapshot and the quarantined output
C30_Witness ==
    \E r \in Slots :
        /\ req[r].pc = "done"
        /\ \E i, j \in DOMAIN req[r].ops :
              /\ i < j
              /\ IsSidePut(req[r], i)
              /\ IsSidePut(req[r], j)
              /\ req[r].ops[i].ok
              /\ req[r].ops[j].ok

====
